---- MODULE Spec2Model ----
(***************************************************************************)
(* Model of the KVR Go frontend proxy (src/frontend/server.js) in front of *)
(* the KVR Go REST backend (documented in the repository README).          *)
(*                                                                         *)
(* Every Express handler is an async function: it runs synchronously up to *)
(* its next `await backendFetch(...)`, so each backend call together with  *)
(* the synchronous code that follows it is one atomic step, and handlers   *)
(* of different requests interleave between those steps.  The code before  *)
(* a handler's first await reads only the request and its session, so it   *)
(* is one step with the first backend call.  Requests carry no identity:   *)
(* the requests in flight form a bag.                                      *)
(***************************************************************************)
EXTENDS Integers, FiniteSets, Sequences, Bags, TLC

\* ---------------------------------------------------------------- bounds
MaxReqs == 3        \* requests received in one behaviour
MaxAmount == 2      \* largest finite amount a client submits
MaxRows == 8        \* longest leaderboard the dashboard receives

Clients == {"c1"}                             \* browser sessions (cookies)

\* ------------------------------------------------------- backend contents
Accounts == {"alice", "bob"}
NoUser == ""                                  \* req.session.user undefined / falsy
Names == Accounts \cup {"carol", NoUser}      \* usernames a client may submit
Undefined == "undefined"                      \* a field missing from req.body
Pins == {"1", "2", "3"}                       \* PINs as they appear in the URL path
InitPin == [u \in Accounts |-> IF u = "alice" THEN "1" ELSE "2"]
InitCoin == [u \in Accounts |-> IF u = "alice" THEN 2 ELSE 1]

\* ------------------------------------------------------ JavaScript numbers
\* A JS number is finite, NaN, +Infinity or -Infinity.
Fin(n) == [k |-> "fin", v |-> n]
NaN == [k |-> "nan", v |-> 0]
PosInf == [k |-> "inf", v |-> 0]
NegInf == [k |-> "ninf", v |-> 0]

\* Values of req.body.amount: missing, a JSON number, or a JSON string.
AmountInputs ==
    {[t |-> "undef", v |-> 0, s |-> ""]}
    \cup {[t |-> "num", v |-> n, s |-> ""] : n \in (-1)..MaxAmount}
    \cup {[t |-> "str", v |-> 0, s |-> x] : x \in {"abc", "Infinity", "-Infinity"}}

\* Number(amount), server.js line 82.
ToNumber(a) ==
    CASE a.t = "num" -> Fin(a.v)
      [] a.t = "str" /\ a.s = "Infinity" -> PosInf
      [] a.t = "str" /\ a.s = "-Infinity" -> NegInf
      [] OTHER -> NaN

IsNaN(x) == x.k = "nan"
\* x <= 0 on JS numbers (false for NaN).
LeqZero(x) == \/ x.k = "ninf"
              \/ x.k = "fin" /\ x.v <= 0
\* b < x for a finite balance b (false for NaN).
BalanceLess(b, x) == \/ x.k = "inf"
                     \/ x.k = "fin" /\ b < x.v

\* isNaN(amt) || amt <= 0, server.js line 83.
InvalidAmount(amt) == IsNaN(amt) \/ LeqZero(amt)

VARIABLES
    kvrcoin,    \* backend: username -> KVRCoin balance
    pin,        \* backend: username -> PIN
    session,    \* express-session store: client -> req.session.user
    inflight,   \* bag of the requests being handled (locals and position)
    resp,       \* the response just sent, with the request it answers
    started,    \* requests received so far
    solo,       \* history: the latest request has run with no other in flight
    kv0,        \* history: the balances when that request arrived
    currentUser, \* dashboard: the script's currentUser
    lb,         \* dashboard: the leaderboard answer last fetched
    view        \* dashboard: what the leaderboard element shows

vars == <<kvrcoin, pin, session, inflight, resp, started, solo, kv0,
          currentUser, lb, view>>
\* The state of the dashboard page; no handler of the proxy touches it.
viewVars == <<currentUser, lb, view>>
\* The state of the proxy and its backend.
proxyVars == <<kvrcoin, pin, session, inflight, resp, started, solo, kv0>>

NoAmount == [t |-> "undef", v |-> 0, s |-> ""]
NoBody == [username |-> NoUser, kvrcoin |-> 0]

Idle == [op |-> "none", pc |-> "idle", client |-> "", user |-> NoUser,
         to |-> NoUser, amount |-> NoAmount, amt |-> NaN,
         uname |-> NoUser, pin |-> Undefined, newPin |-> Undefined,
         found |-> NoUser, sender |-> 0, receiver |-> 0, wrote |-> {},
         status |-> 0, error |-> "", body |-> NoBody]

\* The leaderboard element before the first load, and the JSON not yet fetched.
NoView == [loaded |-> FALSE, text |-> "", items |-> <<>>,
           idx |-> -1, start |-> 0, end |-> 0]
NoAnswer == [array |-> FALSE, rows |-> <<>>]

Init ==
    /\ kvrcoin = InitCoin
    /\ pin = InitPin
    /\ session = [c \in Clients |-> NoUser]
    /\ inflight = EmptyBag
    /\ resp = Idle
    /\ started = 0
    /\ solo = FALSE
    /\ kv0 = InitCoin
    /\ currentUser = NoUser
    /\ lb = NoAnswer
    /\ view = NoView

\* --------------------------------------------------------------- helpers
Requests == BagToSet(inflight)
One(rec) == SetToBag({rec})

\* A request arrives; rec is its handler after its first step.  The server
\* keeps nothing of a request it has answered: resp holds the response until
\* the next step of any request.
Arrive(rec) ==
    /\ started < MaxReqs
    /\ started' = started + 1
    /\ inflight' = IF rec.pc = "done" THEN inflight ELSE inflight (+) One(rec)
    /\ resp' = IF rec.pc = "done" THEN rec ELSE Idle
    /\ solo' = (inflight = EmptyBag)
    /\ kv0' = IF inflight = EmptyBag THEN kvrcoin ELSE InitCoin
    /\ UNCHANGED viewVars

\* The handler of the request old takes a step and is now rec.
Step(old, rec) ==
    /\ inflight' = IF rec.pc = "done" THEN inflight (-) One(old)
                   ELSE (inflight (-) One(old)) (+) One(rec)
    /\ resp' = IF rec.pc = "done" THEN rec ELSE Idle
    /\ UNCHANGED <<started, solo, kv0>>
    /\ UNCHANGED viewVars

\* res.status(st).json({ error: e })
Respond(rec, st, e) == [rec EXCEPT !.pc = "done", !.status = st, !.error = e]
\* res.json(...) carrying an account
RespondOk(rec, b) == [rec EXCEPT !.pc = "done", !.status = 200, !.error = "", !.body = b]

\* The catch blocks of the handlers: a backend error status (the backend's 404
\* for an unknown user or PIN) is passed on, any other failure becomes a 500.
NotFound(rec) == Respond(rec, 404, "not found")
StoreFailed(rec) == Respond(rec, 500, "backend")

\* The backend's JSON for an account (README: username, kvrcoin, ...).
UserJson(u) == [username |-> u, kvrcoin |-> kvrcoin[u]]

\* GET /users/pin/<pin>: the account holding that PIN, if any.
PinHolders(p) == {u \in Accounts : pin[u] = p}

\* ------------------------------------------------------------- transfer
\* Faulty variants of the funds check: the check left out, and an off-by-one.
InsufficientFundsNever(bal, amt) == FALSE
InsufficientFundsOffByOne(bal, amt) == BalanceLess(bal + 1, amt)
\* Number(sender.kvrcoin) < amt, server.js line 88.
InsufficientFunds(bal, amt) == BalanceLess(bal, amt)
\* Number(sender.kvrcoin) - amt, server.js line 91.
DebitedBalance(bal, amt) == bal - amt.v
\* Faulty variant of the credit: the receiver's balance written back as read.
CreditedBalanceLost(bal, amt) == bal
\* Number(receiver.kvrcoin) + amt, server.js line 92.
CreditedBalance(bal, amt) == bal + amt.v

\* The session and body checks, lines 78-83.
TransferBegin(rec) ==
    IF rec.user = NoUser THEN Respond(rec, 401, "not authenticated")
    ELSE IF rec.to = NoUser \/ rec.amount.t = "undef"
         THEN Respond(rec, 400, "to and amount required")
    ELSE IF InvalidAmount(rec.amt) THEN Respond(rec, 400, "invalid amount")
    ELSE [rec EXCEPT !.pc = "get_sender"]

\* const sender = await backendFetch(`/users/${from}`), line 86.
GetSender(rec, fails) ==
    IF fails THEN StoreFailed(rec)
    ELSE [rec EXCEPT !.sender = kvrcoin[rec.user], !.pc = "get_receiver"]

\* Faulty variant of the recipient's read: a recipient without account is
\* taken for an account with balance 0.
GetReceiverLenient(rec, fails) ==
    LET bal == IF rec.to \in Accounts THEN kvrcoin[rec.to] ELSE 0
    IN IF fails THEN StoreFailed(rec)
       ELSE IF InsufficientFunds(rec.sender, rec.amt)
            THEN Respond([rec EXCEPT !.receiver = bal], 400, "insufficient funds")
       ELSE [rec EXCEPT !.receiver = bal, !.pc = "patch_sender"]
\* const receiver = await backendFetch(`/users/${to}`) and the funds check,
\* lines 87-88.
GetReceiver(rec, fails) ==
    IF fails THEN StoreFailed(rec)
    ELSE IF rec.to \notin Accounts THEN NotFound(rec)
    ELSE IF InsufficientFunds(rec.sender, rec.amt)
         THEN Respond([rec EXCEPT !.receiver = kvrcoin[rec.to]],
                      400, "insufficient funds")
    ELSE [rec EXCEPT !.receiver = kvrcoin[rec.to], !.pc = "patch_sender"]

\* POST /api/transfer arrives and its first backend call is served.
TransferStart(c, to, amount, fails) ==
    /\ LET new == [Idle EXCEPT !.op = "transfer", !.client = c,
                               !.user = session[c], !.to = to,
                               !.amount = amount, !.amt = ToNumber(amount)]
       IN Arrive(IF TransferBegin(new).pc = "done" THEN TransferBegin(new)
                 ELSE GetSender(TransferBegin(new), fails))
    /\ UNCHANGED <<kvrcoin, pin, session>>

TransferGetReceiver(rec, fails) ==
    /\ rec.op = "transfer" /\ rec.pc = "get_receiver"
    /\ Step(rec, GetReceiver(rec, fails))
    /\ UNCHANGED <<kvrcoin, pin, session>>

\* PATCH /users/<from> { kvrcoin: sender.kvrcoin - amt }, line 91.
TransferPatchSender(rec, fails) ==
    /\ rec.op = "transfer" /\ rec.pc = "patch_sender"
    /\ IF fails
       THEN /\ Step(rec, StoreFailed(rec))
            /\ UNCHANGED kvrcoin
       ELSE /\ kvrcoin' = [kvrcoin EXCEPT ![rec.user] =
                              DebitedBalance(rec.sender, rec.amt)]
            /\ Step(rec, [rec EXCEPT !.pc = "patch_receiver",
                                     !.wrote = @ \cup {rec.user}])
    /\ UNCHANGED <<pin, session>>

\* PATCH /users/<to> { kvrcoin: receiver.kvrcoin + amt }, line 92.
TransferPatchReceiver(rec, fails) ==
    /\ rec.op = "transfer" /\ rec.pc = "patch_receiver"
    /\ IF fails
       THEN /\ Step(rec, StoreFailed(rec))
            /\ UNCHANGED kvrcoin
       ELSE /\ kvrcoin' = [kvrcoin EXCEPT ![rec.to] =
                              CreditedBalance(rec.receiver, rec.amt)]
            /\ Step(rec, [rec EXCEPT !.pc = "get_updated",
                                     !.wrote = @ \cup {rec.to}])
    /\ UNCHANGED <<pin, session>>

\* The refreshed sender and the response, lines 94-95.
GetUpdated(rec, fails) ==
    IF fails THEN StoreFailed(rec) ELSE RespondOk(rec, UserJson(rec.user))

TransferGetUpdated(rec, fails) ==
    /\ rec.op = "transfer" /\ rec.pc = "get_updated"
    /\ Step(rec, GetUpdated(rec, fails))
    /\ UNCHANGED <<kvrcoin, pin, session>>

\* ---------------------------------------------------------------- login
\* The body check, line 46.
LoginBegin(rec) ==
    IF rec.uname = NoUser \/ rec.pin = Undefined
    THEN Respond(rec, 400, "username and pin required")
    ELSE [rec EXCEPT !.pc = "lookup"]

\* Faulty variant of the username check: any account the PIN resolves to is
\* accepted.
LoginMismatchNever(found, username) == FALSE
\* !user || user.username !== username, line 50.
LoginMismatch(found, username) == found # username

\* const user = await backendFetch(`/users/pin/${pin}`) answered with the
\* account u, or with 404 when u is NoUser; lines 49-58.
LoginLookup(rec, u, fails) ==
    IF fails THEN StoreFailed(rec)
    ELSE IF u = NoUser THEN NotFound(rec)
    ELSE IF LoginMismatch(u, rec.uname)
         THEN Respond([rec EXCEPT !.found = u], 401, "Invalid username or pin")
    ELSE RespondOk([rec EXCEPT !.found = u], UserJson(u))

\* What GET /users/pin/<p> can answer: an account holding p, or none.
PinAnswers(p) == IF PinHolders(p) = {} THEN {NoUser} ELSE PinHolders(p)

\* Faulty variant of login: the session is bound to the username before the
\* PIN lookup is judged.
LoginBindsEarly(c, username, p, fails) ==
    /\ LET new == [Idle EXCEPT !.op = "login", !.client = c, !.user = session[c],
                               !.uname = username, !.pin = p]
       IN \E u \in PinAnswers(p) :
            LET rec == IF LoginBegin(new).pc = "done" THEN LoginBegin(new)
                       ELSE LoginLookup(LoginBegin(new), u, fails)
            IN /\ Arrive(rec)
               /\ session' = IF LoginBegin(new).pc # "done"
                             THEN [session EXCEPT ![c] = username]
                             ELSE session
    /\ UNCHANGED <<kvrcoin, pin>>
\* POST /api/login: the whole handler has one backend call.
Login(c, username, p, fails) ==
    /\ LET new == [Idle EXCEPT !.op = "login", !.client = c, !.user = session[c],
                               !.uname = username, !.pin = p]
       IN \E u \in PinAnswers(p) :
            LET rec == IF LoginBegin(new).pc = "done" THEN LoginBegin(new)
                       ELSE LoginLookup(LoginBegin(new), u, fails)
            IN /\ Arrive(rec)
               \* req.session.user = username, line 53
               /\ session' = IF rec.status = 200
                             THEN [session EXCEPT ![c] = username]
                             ELSE session
    /\ UNCHANGED <<kvrcoin, pin>>

\* --------------------------------------------------------------- logout
\* Faulty variant of logout: a session that is not logged in is refused.
LogoutStrict(c) ==
    /\ session' = [session EXCEPT ![c] = NoUser]
    /\ LET new == [Idle EXCEPT !.op = "logout", !.client = c, !.user = session[c]]
       IN Arrive(IF session[c] = NoUser
                 THEN Respond(new, 401, "not authenticated")
                 ELSE RespondOk(new, NoBody))
    /\ UNCHANGED <<kvrcoin, pin>>
\* req.session.destroy(() => res.json({ message: 'logged out' })), lines 61-63.
Logout(c) ==
    /\ session' = [session EXCEPT ![c] = NoUser]
    /\ Arrive(RespondOk([Idle EXCEPT !.op = "logout", !.client = c,
                                     !.user = session[c]], NoBody))
    /\ UNCHANGED <<kvrcoin, pin>>

\* --------------------------------------------------------------- /api/me
\* lines 66-67
MeBegin(rec) ==
    IF rec.user = NoUser THEN Respond(rec, 401, "not authenticated")
    ELSE [rec EXCEPT !.pc = "get_me"]

\* GET /users/<username>, lines 69-70.
MeGet(rec, fails) ==
    IF fails THEN StoreFailed(rec) ELSE RespondOk(rec, UserJson(rec.user))

\* GET /api/me: the whole handler has one backend call.
Me(c, fails) ==
    /\ LET new == [Idle EXCEPT !.op = "me", !.client = c, !.user = session[c]]
       IN Arrive(IF MeBegin(new).pc = "done" THEN MeBegin(new)
                 ELSE MeGet(MeBegin(new), fails))
    /\ UNCHANGED <<kvrcoin, pin, session>>

\* ------------------------------------------------------------ change-pin
\* Faulty variant of the checks: the session check left out.
ChangePinBeginUnchecked(rec) ==
    IF rec.newPin = Undefined \/ rec.pin = Undefined
    THEN Respond(rec, 400, "new_pin and old_pin required")
    ELSE [rec EXCEPT !.pc = "verify"]
\* The session and body checks, lines 103-106.
ChangePinBegin(rec) ==
    IF rec.user = NoUser THEN Respond(rec, 401, "not authenticated")
    ELSE IF rec.newPin = Undefined \/ rec.pin = Undefined
         THEN Respond(rec, 400, "new_pin and old_pin required")
    ELSE [rec EXCEPT !.pc = "verify"]

\* Faulty variant of the owner check: the PIN of any account is accepted.
OldPinMismatchNever(found, username) == FALSE
\* !userByOldPin || userByOldPin.username !== username, line 110.
OldPinMismatch(found, username) == found # username

\* const userByOldPin = await backendFetch(`/users/pin/${old_pin}`) answered
\* with the account u, or with 404 when u is NoUser; lines 109-112.
ChangePinVerify(rec, u, fails) ==
    IF fails THEN StoreFailed(rec)
    ELSE IF u = NoUser THEN NotFound(rec)
    ELSE IF OldPinMismatch(u, rec.user)
         THEN Respond([rec EXCEPT !.found = u], 401, "Old PIN is incorrect")
    ELSE [rec EXCEPT !.found = u, !.pc = "patch_pin"]

\* POST /api/change-pin arrives and its lookup of old_pin is served.
ChangePinStart(c, old, new, fails) ==
    /\ LET rec0 == [Idle EXCEPT !.op = "changePin", !.client = c,
                                !.user = session[c], !.pin = old, !.newPin = new]
       IN \E u \in PinAnswers(old) :
            Arrive(IF ChangePinBegin(rec0).pc = "done" THEN ChangePinBegin(rec0)
                   ELSE ChangePinVerify(ChangePinBegin(rec0), u, fails))
    /\ UNCHANGED <<kvrcoin, pin, session>>

\* PATCH /users/<username> { pin: String(new_pin) }, lines 114-115.
ChangePinPatch(rec, fails) ==
    /\ rec.op = "changePin" /\ rec.pc = "patch_pin"
    /\ IF fails
       THEN /\ Step(rec, StoreFailed(rec))
            /\ UNCHANGED pin
       ELSE /\ pin' = [pin EXCEPT ![rec.user] = rec.newPin]
            /\ Step(rec, RespondOk(rec, UserJson(rec.user)))
    /\ UNCHANGED <<kvrcoin, session>>

\* ------------------------------------------------------------------ Next
LoginSteps ==
    \E c \in Clients, u \in Names, p \in Pins \cup {Undefined}, f \in BOOLEAN :
       Login(c, u, p, f)

TransferSteps ==
    \/ \E c \in Clients, to \in Names, a \in AmountInputs, f \in BOOLEAN :
          TransferStart(c, to, a, f)
    \/ \E rec \in Requests, f \in BOOLEAN : TransferGetReceiver(rec, f)
    \/ \E rec \in Requests, f \in BOOLEAN : TransferPatchSender(rec, f)
    \/ \E rec \in Requests, f \in BOOLEAN : TransferPatchReceiver(rec, f)
    \/ \E rec \in Requests, f \in BOOLEAN : TransferGetUpdated(rec, f)

SessionSteps ==
    \/ \E c \in Clients : Logout(c)
    \/ \E c \in Clients, f \in BOOLEAN : Me(c, f)

ChangePinSteps ==
    \/ \E c \in Clients, old \in Pins \cup {Undefined},
          new \in Pins \cup {Undefined}, f \in BOOLEAN :
          ChangePinStart(c, old, new, f)
    \/ \E rec \in Requests, f \in BOOLEAN : ChangePinPatch(rec, f)

\* Every endpoint of the proxy.
Next == LoginSteps \/ SessionSteps \/ TransferSteps \/ ChangePinSteps
Spec == Init /\ [][Next]_vars

\* Clients that log in and transfer.
NextTransfer == LoginSteps \/ TransferSteps
SpecTransfer == Init /\ [][NextTransfer]_vars

\* Clients that log in, log out, read their account and change their PIN.
NextAuth == LoginSteps \/ SessionSteps \/ ChangePinSteps
SpecAuth == Init /\ [][NextAuth]_vars

\* A well-formed, individually valid transfer between two different accounts:
\* the sender is logged in, the recipient is another existing account and the
\* amount is positive and covered by the sender's balance on arrival.
ValidTransferStart ==
    \E c \in Clients, to \in Accounts, a \in AmountInputs :
       /\ session[c] \in Accounts /\ to # session[c]
       /\ a.t = "num" /\ a.v >= 1 /\ a.v <= kvrcoin[session[c]]
       /\ TransferStart(c, to, a, FALSE)

\* Clients that log in and send only valid transfers, over a store that never
\* fails.
NextPair ==
    \/ LoginSteps
    \/ ValidTransferStart
    \/ \E rec \in Requests : TransferGetReceiver(rec, FALSE)
    \/ \E rec \in Requests : TransferPatchSender(rec, FALSE)
    \/ \E rec \in Requests : TransferPatchReceiver(rec, FALSE)
    \/ \E rec \in Requests : TransferGetUpdated(rec, FALSE)
SpecPair == Init /\ [][NextPair]_vars

\* ------------------------------------------------- dashboard leaderboard
\* Math.min and Math.max
Min(a, b) == IF a < b THEN a ELSE b
Max(a, b) == IF a > b THEN a ELSE b

\* The chess ranking kept by the backend, best first; the leaderboard the
\* dashboard receives is its first n rows (usernames are unique).
Ranking == <<"dave", "alice", "erin", "bob", "frank",
             "grace", "heidi", "ivan", "judy", "mike">>
Leaderboards == {SubSeq(Ranking, 1, n) : n \in 0..Min(MaxRows, Len(Ranking))}
\* The parsed answer of /api/chess/leaderboard: an array of rows, or the
\* error object of the proxy's catch block.
Answers == {[array |-> TRUE, rows |-> r] : r \in Leaderboards} \cup {NoAnswer}
\* The usernames /api/me can answer: ranked players and an unranked one.
Players == {Ranking[i] : i \in 1..Len(Ranking)} \cup {"carol"}

\* lb.findIndex(r => r.username === currentUser): the 0-based index of the
\* first matching row, or -1.
FindIndex(rows, user) ==
    IF \E i \in 1..Len(rows) : rows[i] = user
    THEN (CHOOSE i \in 1..Len(rows) :
             rows[i] = user /\ \A j \in 1..(i - 1) : rows[j] # user) - 1
    ELSE -1

\* const idx = currentUser ? lb.findIndex(...) : -1, line 339.
CurrentIndex(rows, user) == IF user # NoUser THEN FindIndex(rows, user) ELSE -1

\* Faulty variant of the adjustment: the window is left as first computed.
AdjustWindowNone(w, n) == w
\* "adjust to ensure we show 5 items when possible", lines 344-348.
AdjustWindow(w, n) ==
    IF w.end - w.start < 5
    THEN IF w.start = 0 THEN [w EXCEPT !.end = Min(n, w.start + 5)]
         ELSE IF w.end = n THEN [w EXCEPT !.start = Max(0, w.end - 5)]
         ELSE w
    ELSE w

\* start and end, lines 340-349.
Window(n, idx) ==
    IF idx >= 0
    THEN AdjustWindow([start |-> Max(0, idx - 2), end |-> Min(n, idx + 3)], n)
    ELSE [start |-> 0, end |-> Min(n, 5)]

\* The <li> elements appended by the loop of lines 351-358; i is the loop
\* index into the 0-based array.
Items(rows, user, w) ==
    [k \in 1..(w.end - w.start) |->
        LET i == w.start + k - 1
        IN [rank |-> i + 1, username |-> rows[i + 1],
            current |-> rows[i + 1] = user]]

\* loadLeaderboard with the fetched answer, lines 334-358.
LoadLeaderboard(answer, user) ==
    IF ~answer.array \/ Len(answer.rows) = 0
    THEN [NoView EXCEPT !.loaded = TRUE, !.text = "No leaderboard data"]
    ELSE LET idx == CurrentIndex(answer.rows, user)
             w == Window(Len(answer.rows), idx)
         IN [loaded |-> TRUE, text |-> "",
             items |-> Items(answer.rows, user, w),
             idx |-> idx, start |-> w.start, end |-> w.end]

\* loadMe after /api/me answered the account of u: currentUser = me.username
\* and the leaderboard is loaded, lines 266-285.
ViewLoadMe(u, answer) ==
    /\ currentUser' = u
    /\ lb' = answer
    /\ view' = LoadLeaderboard(answer, u)
    /\ UNCHANGED proxyVars

\* el('refreshLeaderboard').onclick = loadLeaderboard, line 362.
RefreshLeaderboard(answer) ==
    /\ lb' = answer
    /\ view' = LoadLeaderboard(answer, currentUser)
    /\ UNCHANGED <<currentUser, proxyVars>>

\* The dashboard page of a browser.
NextLeaderboard ==
    \/ \E u \in Players, a \in Answers : ViewLoadMe(u, a)
    \/ \E a \in Answers : RefreshLeaderboard(a)
SpecLeaderboard == Init /\ [][NextLeaderboard]_vars

\* ================================================================ claims
RECURSIVE SumOver(_, _)
SumOver(S, f) == IF S = {} THEN 0
                 ELSE LET u == CHOOSE x \in S : TRUE IN f[u] + SumOver(S \ {u}, f)
Total(f) == SumOver(Accounts, f)

TransferDone == resp.op = "transfer" /\ resp.pc = "done"
Authenticated(rec) == rec.user # NoUser
\* The request got past the body checks of its handler.
WellFormed(rec) == rec.to # NoUser /\ rec.amount.t # "undef" /\ ~InvalidAmount(rec.amt)
\* No backend call of the request failed (a failure is answered with 500).
StoreAnswered(rec) == rec.status # 500

\* C1: under SpecPair every transfer is valid and between alice and bob; once
\* all of them have finished, the two balances sum to what they summed to at
\* the start.
C1_NoLostUpdate ==
    inflight = EmptyBag => Total(kvrcoin) = Total(InitCoin)

\* C2: a valid transfer to a different, existing account that runs with no
\* other request interleaved and whose backend calls all answer succeeds,
\* debits the sender by the amount, credits the recipient by the amount and
\* returns the sender's account as it is after the transfer.
C2_SoloTransfer ==
    ( /\ TransferDone /\ solo
      /\ Authenticated(resp) /\ WellFormed(resp) /\ StoreAnswered(resp)
      /\ resp.to \in Accounts /\ resp.to # resp.user
      /\ ~BalanceLess(kv0[resp.user], resp.amt) )
    => /\ resp.status = 200
       /\ kvrcoin[resp.user] = kv0[resp.user] - resp.amt.v
       /\ kvrcoin[resp.to] = kv0[resp.to] + resp.amt.v
       /\ Total(kvrcoin) = Total(kv0)
       /\ resp.body = [username |-> resp.user, kvrcoin |-> kvrcoin[resp.user]]

C2_Witness ==
    /\ TransferDone /\ solo /\ resp.status = 200
    /\ resp.user = "alice" /\ resp.to = "bob" /\ resp.amt = Fin(1)
    /\ kvrcoin["alice"] = 1 /\ kvrcoin["bob"] = 2

\* C3: every balance is >= 0 in every reachable state, the states between
\* the steps of concurrent transfers included.
C3_NonNegative == \A u \in Accounts : kvrcoin[u] >= 0

\* Two transfers of the same sender are past the funds check, their amounts
\* together exceed the balance, and the first debit is written.
C3_Witness ==
    \E a \in Requests, b \in Requests :
       /\ a.op = "transfer" /\ b.op = "transfer" /\ a.user = b.user
       /\ a.pc = "patch_receiver" /\ b.pc = "patch_sender"
       /\ a.amt.v + b.amt.v > a.sender
       /\ kvrcoin[a.user] = 0

\* C4 as written: a transfer whose amount exceeds the sender's balance always
\* fails with insufficient funds and leaves the balances unchanged (read here
\* for the requests whose backend calls all answer).
C4_Original ==
    ( /\ TransferDone /\ solo /\ Authenticated(resp) /\ WellFormed(resp)
      /\ StoreAnswered(resp)
      /\ BalanceLess(kv0[resp.user], resp.amt) )
    => /\ resp.status = 400 /\ resp.error = "insufficient funds"
       /\ kvrcoin = kv0

\* C4 amended: such a transfer never succeeds and writes nothing, so alone it
\* leaves the balances unchanged; its error is insufficient funds when the
\* recipient exists and both account reads answer.
C4_InsufficientFunds ==
    /\ ( /\ TransferDone /\ solo /\ Authenticated(resp) /\ WellFormed(resp)
         /\ BalanceLess(kv0[resp.user], resp.amt) )
       => /\ resp.status # 200 /\ resp.wrote = {}
          /\ kvrcoin = kv0
          /\ (resp.to \in Accounts /\ StoreAnswered(resp))
                => resp.status = 400 /\ resp.error = "insufficient funds"
    /\ \A rec \in Requests \cup {resp} :
          ( /\ rec.op = "transfer"
            /\ rec.pc \in {"patch_sender", "patch_receiver", "get_updated"} )
          => ~BalanceLess(rec.sender, rec.amt)

C4_Witness ==
    /\ TransferDone /\ solo /\ resp.user = "bob" /\ resp.to = "alice"
    /\ resp.amt = Fin(2) /\ kv0["bob"] = 1
    /\ resp.status = 400 /\ resp.error = "insufficient funds"

\* C5: a transfer that ends with an error, at whatever step, has left the
\* sender's and the recipient's balance as they were before it.
C5_ErrorLeavesBalances ==
    (TransferDone /\ solo /\ resp.status # 200 /\ resp.to # resp.user)
    => kvrcoin = kv0

\* C6: no /api/me answer shows one of the accounts of a transfer whose debit
\* is written and whose credit is not.
C6_NoPartialRead ==
    \A t \in Requests :
       ( /\ t.op = "transfer" /\ t.pc = "patch_receiver" /\ t.user # t.to
         /\ kvrcoin[t.user] = t.sender - t.amt.v )
       => ~( /\ resp.op = "me" /\ resp.status = 200
             /\ resp.user \in {t.user, t.to} )

\* C7: a transfer to the sender's own username is rejected and leaves the
\* balance unchanged (whenever the backend answered).
C7_SelfTransferRejected ==
    ( /\ TransferDone /\ Authenticated(resp) /\ StoreAnswered(resp)
      /\ resp.to = resp.user )
    => /\ resp.status = 400
       /\ solo => kvrcoin = kv0

\* C8: a transfer's PATCH of a balance commits only while the balance still
\* has the value the transfer read (under SpecPair: valid transfers between
\* two different accounts).
C8_VersionChecked ==
    [][ \A rec \in Requests :
          /\ TransferPatchSender(rec, FALSE) => kvrcoin[rec.user] = rec.sender
          /\ TransferPatchReceiver(rec, FALSE) => kvrcoin[rec.to] = rec.receiver
      ]_vars

\* C9: a login succeeds, and binds the session to the supplied username, only
\* if the PIN lookup returned the account of exactly that username; when the
\* PIN resolves to another account the answer is 401 invalid credentials and
\* the session is left as it was.
C9_LoginBindsMatchingUser ==
    (resp.op = "login" /\ resp.pc = "done")
    => /\ resp.status = 200
          => /\ resp.found = resp.uname
             /\ resp.found \in PinHolders(resp.pin)
             /\ session[resp.client] = resp.uname
       /\ resp.found \notin {NoUser, resp.uname}
          => /\ resp.status = 401 /\ resp.error = "Invalid username or pin"
             /\ session[resp.client] = resp.user

\* The PIN of bob is presented with the username alice.
C9_Witness ==
    /\ resp.op = "login" /\ resp.pc = "done"
    /\ resp.uname = "alice" /\ resp.found = "bob"
    /\ resp.status = 401 /\ session[resp.client] = NoUser

\* The answer the handler of rec gives when the PIN resolves to the account
\* of another user.
OtherUser(rec) ==
    CHOOSE u \in Accounts : u # (IF rec.op = "login" THEN rec.uname ELSE rec.user)
WrongOwnerAnswer(rec) ==
    LET r0 == [rec EXCEPT !.pc = "idle", !.status = 0, !.error = ""]
        ans == IF rec.op = "login"
               THEN LoginLookup(LoginBegin(r0), OtherUser(rec), FALSE)
               ELSE ChangePinVerify(ChangePinBegin(r0), OtherUser(rec), FALSE)
    IN <<ans.status, ans.error>>

\* The request's PIN lookup was made and found no account.
PinNotFound(rec) ==
    /\ rec.op \in {"login", "changePin"} /\ rec.pc = "done"
    /\ rec.found = NoUser /\ StoreAnswered(rec)
    /\ IF rec.op = "login" THEN LoginBegin(rec).pc # "done"
       ELSE ChangePinBegin(rec).pc # "done"

\* C10: login and change-pin answer a PIN that maps to no account exactly as
\* they answer a PIN that maps to another user's account.
C10_Indistinguishable ==
    PinNotFound(resp) => <<resp.status, resp.error>> = WrongOwnerAnswer(resp)

\* The endpoints that need a logged-in session.
NeedsSession(rec) == rec.op \in {"transfer", "changePin", "me"}

\* C11: a transfer, change-pin or me request whose session is anonymous is
\* answered 401 not authenticated whatever its body and whatever the store
\* would have answered, has read and written nothing of the store, and is
\* never found waiting for a backend call.
C11_AnonymousRejected ==
    /\ (resp.pc = "done" /\ NeedsSession(resp) /\ ~Authenticated(resp))
       => /\ resp.status = 401 /\ resp.error = "not authenticated"
          /\ resp.found = NoUser /\ resp.wrote = {} /\ resp.body = NoBody
          /\ solo => kvrcoin = kv0
    /\ \A rec \in Requests : NeedsSession(rec) => Authenticated(rec)

\* An anonymous client posts a well-formed transfer.
C11_Witness ==
    /\ resp.op = "transfer" /\ resp.pc = "done" /\ resp.user = NoUser
    /\ resp.to = "bob" /\ resp.amt = Fin(1)
    /\ resp.status = 401 /\ resp.error = "not authenticated"

ChangePinDone == resp.op = "changePin" /\ resp.pc = "done"

\* C12: a step that changes a PIN is the PATCH of a change-pin request whose
\* old_pin was given, was looked up and resolved to the account of the
\* session's user, and it sets the PIN of that account only; a change-pin
\* answered without old_pin, or whose old_pin resolved to no account or to
\* another user's account, is answered with an error by a step that changes
\* no PIN.
C12_OldPinVerified ==
    [][ /\ pin' # pin
           => \E rec \in Requests :
                 /\ rec.op = "changePin" /\ rec.pc = "patch_pin"
                 /\ rec.pin # Undefined /\ rec.found = rec.user
                 /\ Authenticated(rec)
                 /\ pin' = [pin EXCEPT ![rec.user] = rec.newPin]
        /\ ( /\ ChangePinDone' /\ Authenticated(resp')
             /\ (resp'.pin = Undefined \/ resp'.found # resp'.user) )
           => resp'.status # 200 /\ pin' = pin
      ]_vars

\* alice, verified by her PIN "1", has changed it to "3".
C12_Witness ==
    /\ ChangePinDone /\ resp.status = 200
    /\ resp.user = "alice" /\ resp.found = "alice" /\ resp.pin = "1"
    /\ resp.newPin = "3" /\ pin["alice"] = "3"

\* C13: no two accounts hold the same PIN; a change-pin whose new PIN is held
\* by another account does not succeed, and after a successful change-pin
\* exactly one account holds the new PIN and none holds the old one.
C13_PinUnique ==
    /\ \A u \in Accounts, v \in Accounts : u # v => pin[u] # pin[v]
    /\ (ChangePinDone /\ resp.status = 200)
       => /\ PinHolders(resp.newPin) = {resp.user}
          /\ resp.pin # resp.newPin => PinHolders(resp.pin) = {}

\* C14: a transfer whose recipient is not an existing account never gets
\* past the read of the recipient: it ends with an error (the backend's 404
\* when the store answers), has written no balance, and alone leaves every
\* balance as it was.
C14_UnknownRecipient ==
    /\ ( /\ TransferDone /\ Authenticated(resp) /\ WellFormed(resp)
         /\ resp.to \notin Accounts )
       => /\ resp.status # 200 /\ resp.wrote = {}
          /\ StoreAnswered(resp) => resp.status = 404
          /\ solo => kvrcoin = kv0
    /\ \A rec \in Requests :
          (rec.op = "transfer" /\ rec.to \notin Accounts)
          => rec.pc = "get_receiver" /\ rec.wrote = {}

\* alice has sent 1 to carol, who has no account.
C14_Witness ==
    /\ TransferDone /\ solo /\ resp.user = "alice" /\ resp.to = "carol"
    /\ resp.amt = Fin(1) /\ resp.status = 404 /\ kvrcoin = kv0

\* An amount that is NaN, an infinity, negative or zero.
NotPositiveFinite(amt) == amt.k # "fin" \/ amt.v <= 0

\* C15: a transfer whose amount is NaN, an infinity, negative or zero is
\* answered 400 on arrival, before any backend call: it is never found
\* waiting for the store and it has read and written nothing.
C15_BadAmountNoStoreCall ==
    /\ (TransferDone /\ Authenticated(resp) /\ NotPositiveFinite(resp.amt))
       => /\ resp.status = 400
          /\ resp.error \in {"invalid amount", "to and amount required"}
          /\ resp.wrote = {}
    /\ \A rec \in Requests :
          rec.op = "transfer" => ~NotPositiveFinite(rec.amt)

LogoutDone == resp.op = "logout" /\ resp.pc = "done"

\* C16: every logout is answered 200 with no error and leaves its client's
\* session anonymous, whether or not the session was logged in; a logout
\* that directly follows a logout of the same client changes no session.
C16_LogoutIdempotent ==
    [][ LogoutDone'
        => /\ resp'.status = 200 /\ resp'.error = ""
           /\ session'[resp'.client] = NoUser
           /\ (LogoutDone /\ resp.client = resp'.client) => session' = session
      ]_vars

\* A logout of a session that was already anonymous, after two earlier
\* requests.
C16_Witness ==
    /\ LogoutDone /\ resp.user = NoUser /\ resp.status = 200
    /\ started = 3 /\ session[resp.client] = NoUser

\* The transfer rec is about to write the sender's balance, and another
\* request has changed that balance since rec read it: its attempt has met
\* contention.
Contended(rec) ==
    /\ rec.op = "transfer" /\ rec.pc = "patch_sender"
    /\ kvrcoin[rec.user] # rec.sender

\* C17: a transfer takes a bounded number of read-verify-write attempts and
\* does not go on as if alone when its attempt met contention: its next step
\* starts another attempt by reading again, or ends it with a retryable
\* transfer-failed error (under SpecPair: valid transfers, a store that
\* always answers).
C17_ContentionSurfaces ==
    [][ \A rec \in Requests :
          (Contended(rec) /\ TransferPatchSender(rec, FALSE))
          => \/ /\ TransferDone' /\ resp'.status # 200
                /\ resp'.error = "transfer failed"
             \/ \E again \in BagToSet(inflight') :
                   /\ again.op = "transfer" /\ again.user = rec.user
                   /\ again.pc \in {"get_sender", "get_receiver"}
      ]_vars

\* The change-pin rec has verified its old PIN and another change-pin of the
\* same user has since replaced that PIN by a new PIN other than rec's: rec's
\* old PIN is stale.  The new PIN rec asks for is held by no account.
StaleOldPin(rec) ==
    /\ rec.op = "changePin" /\ rec.pc = "patch_pin"
    /\ pin[rec.user] # rec.pin
    /\ PinHolders(rec.newPin) = {}

\* C18: of two concurrent change-pin requests of one user with the same old
\* PIN and different new PINs at most one succeeds: the request whose old PIN
\* has become stale fails without writing.
C18_OneChangePinWins ==
    [][ \A rec \in Requests :
          (StaleOldPin(rec) /\ ChangePinPatch(rec, FALSE))
          => pin' = pin /\ resp'.status # 200
      ]_vars

LoginDone == resp.op = "login" /\ resp.pc = "done"

\* C19: the step that answers a login with an error (missing fields, PIN not
\* found, PIN of another user, store failure) changes no session: the
\* client's session is what it was when the request arrived, anonymous or
\* logged in as the same user.
C19_FailedLoginKeepsSession ==
    [][ (LoginDone' /\ resp'.status # 200)
        => /\ session' = session
           /\ session'[resp'.client] = resp'.user
      ]_vars

\* Logged in as alice, the client presents alice's PIN with the username
\* bob and stays logged in as alice.
C19_Witness ==
    /\ LoginDone /\ resp.status = 401 /\ resp.user = "alice"
    /\ resp.uname = "bob" /\ resp.pin = "1" /\ resp.found = "alice"
    /\ session[resp.client] = "alice"

\* C20: when the leaderboard shown was loaded from n >= 1 rows, the window
\* [start, end) has min(n, 5) rows and lies within the list; it contains the
\* index of the current user's row when there is one and is the first
\* min(n, 5) rows otherwise; the k-th item shown is the row at index
\* start + k - 1 of the full list, with that index plus 1 as its rank.
C20_LeaderboardWindow ==
    (view.loaded /\ lb.array /\ Len(lb.rows) >= 1)
    => LET n == Len(lb.rows)
           at == {i \in 0..(n - 1) :
                    currentUser # NoUser /\ lb.rows[i + 1] = currentUser}
       IN /\ \A idx \in at :
                /\ 0 <= view.start /\ view.start <= idx
                /\ idx < view.end /\ view.end <= n
                /\ view.end - view.start = Min(n, 5)
          /\ at = {} => view.start = 0 /\ view.end = Min(n, 5)
          /\ Len(view.items) = view.end - view.start
          /\ \A k \in 1..Len(view.items) :
                /\ view.items[k].rank = (view.start + k - 1) + 1
                /\ view.items[k].username = lb.rows[view.start + k]

\* The current user is last of 8 rows: the window is moved back to show the
\* last 5.
C20_Witness ==
    /\ view.loaded /\ Len(lb.rows) = 8 /\ currentUser = lb.rows[8]
    /\ view.idx = 7 /\ view.start = 3 /\ view.end = 8
    /\ view.items[1].rank = 4 /\ view.items[5].username = currentUser

====
